---- MODULE Spec2Model ----
(***************************************************************************)
(* Model of navo_utils/cone.py: ConeClass.query and                        *)
(* ConeClass._one_cone_search, together with the collaborators they call   *)
(* (utils.query_loop, utils.try_query,                                     *)
(* utils.astropy_table_from_votable_response, astroquery's                 *)
(* parse_coordinates).  One behaviour is one call of Cone.query().         *)
(***************************************************************************)
EXTENDS Integers, Sequences, FiniteSets, TLC

\* ------------------------------------------------------------------ bounds
MaxCoords == 2      \* longest coords list passed to query()
MaxRadii  == 2      \* longest radius list passed to query()
MaxRows   == 1      \* most rows a service returns for one cone

\* ------------------------------------------------------- program constants
_TIMEOUT == 3       \* self._TIMEOUT
_RETRIES == 3       \* self._RETRIES

\* ------------------------------------------------------------ Python values
\* Every Python value the caller may pass is a record of one shape:
\*   ty    : "str" | "num" | "sky" | "list" | "tuple" | "dict"
\*   ra,dec: the number (num, in ra) or the position in degrees (sky)
\*   txt   : the text of a str, as its blank-separated tokens
\*   items : the elements of a list or tuple
Val(ty, ra, dec, txt, items) ==
    [ty |-> ty, ra |-> ra, dec |-> dec, txt |-> txt, items |-> items]

Str(txt)      == Val("str", 0, 0, txt, <<>>)
Num(v)        == Val("num", v, 0, <<>>, <<>>)
Sky(ra, dec)  == Val("sky", ra, dec, <<>>, <<>>)
List(items)   == Val("list", 0, 0, <<>>, items)
Tuple(items)  == Val("tuple", 0, 0, <<>>, items)

SeqsUpTo(S, n) == UNION {[1..k -> S] : k \in 0..n}

\* The token a value that is not a number prints as inside a formatted string.
Garbage == -1

\* Single positions the caller passes: a string, an (RA, Dec) pair as a list
\* or as a tuple, a SkyCoord; and two malformed ones, a bare number and a
\* string that names no position.
GoodElems == { Str(<<10, 10>>), List(<<Num(20), Num(10)>>),
               Sky(20, 10), Tuple(<<Num(10), Num(10)>>) }
BadElems  == { Num(10), Str(<<Garbage>>) }
Elems     == GoodElems \cup BadElems

CoordsInputs ==
    Elems \cup {List(s) : s \in SeqsUpTo(Elems, MaxCoords)}

Radii == {1, 2}
RadiusInputs ==
    {Num(r) : r \in Radii}
      \cup {List(s) : s \in SeqsUpTo({Num(r) : r \in Radii}, MaxRadii)}

AccessUrl == "http://svc/cone"
ServiceInputs ==
    { Str(<<AccessUrl>>), Val("dict", 0, 0, <<AccessUrl>>, <<>>) }

\* ------------------------------------------------- external collaborators
\* "{} {}".format(c0, c1): a number prints as itself, a string as its text,
\* anything else as something that is no number.
Format(v) ==
    CASE v.ty = "num" -> <<v.ra>>
      [] v.ty = "str" -> v.txt
      [] OTHER        -> <<Garbage>>

\* astroquery.utils.parse_coordinates: a text of two numbers is a position,
\* any other text raises.
CanParse(txt) == Len(txt) = 2 /\ \A i \in 1..2 : txt[i] >= 0
parse_coordinates(txt) == Sky(txt[1], txt[2])

\* ------------------------------------------------------------ query()
\* lines 57-58: a URL string becomes a service descriptor.
NormService(service) ==
    IF service.ty = "str"
      THEN Val("dict", 0, 0, service.txt, <<>>)
      ELSE service

\* WrapCoords without the wrapping of a single position.
WrapCoords_nowrap(coords) == coords

\* lines 61-62: a single string or SkyCoord is wrapped into a list.
WrapCoords(coords) ==
    IF coords.ty = "str" \/ coords.ty = "sky"
      THEN List(<<coords>>)
      ELSE coords

\* line 63: the assertion on the wrapped coords.
CoordsIsList(coords) == WrapCoords(coords).ty = "list"

\* lines 65-69: the per-position radii.  The list branch (line 68) reads the
\* local inradius before anything was assigned to it, which raises
\* UnboundLocalError whatever the list holds; the length assertion of line 69
\* is never reached.
InRadius(radius, n) ==
    IF radius.ty # "list"
      THEN [err |-> "none", val |-> [i \in 1..n |-> radius.ra]]
      ELSE [err |-> "UnboundLocalError", val |-> <<>>]

\* Params walking coords from the end.
Params_rev(cs, inradius) ==
    [i \in 1..Len(cs) |->
        [coords |-> cs[Len(cs) + 1 - i], radius |-> inradius[i]]]

\* line 73: one parameter set per position, in the order of coords.
Params(cs, inradius) ==
    [i \in 1..Len(cs) |-> [coords |-> cs[i], radius |-> inradius[i]]]

\* ------------------------------------------------- _one_cone_search()
\* lines 78-83: the coordinate normalizer; err is what it raises.
Normalize(c) ==
    IF (c.ty = "tuple" \/ c.ty = "list") /\ Len(c.items) = 2
      THEN LET txt == Format(c.items[1]) \o Format(c.items[2])
           IN  IF CanParse(txt)
                 THEN [err |-> "none", sky |-> parse_coordinates(txt)]
                 ELSE [err |-> "ParseError", sky |-> Sky(0, 0)]
    ELSE IF c.ty = "str"
      THEN IF CanParse(c.txt)
             THEN [err |-> "none", sky |-> parse_coordinates(c.txt)]
             ELSE [err |-> "ParseError", sky |-> Sky(0, 0)]
    ELSE IF c.ty = "sky"
      THEN [err |-> "none", sky |-> c]
      ELSE [err |-> "AssertionError_coords", sky |-> Sky(0, 0)]

\* line 85: the request parameters.
GetParams(sky, radius) == [RA |-> sky.ra, DEC |-> sky.dec, SR |-> radius]

\* RetriesArg off by one, either way.
RetriesArg_less == _RETRIES - 1
RetriesArg_more == _RETRIES + 1

\* line 87: the retries argument handed to try_query.
RetriesArg == _RETRIES

\* --------------------------------------------------------------- tables
NoTable == [kind |-> "none", rows |-> <<>>, url |-> <<>>, xml_raw |-> <<>>]

\* The URL a request is sent to: the access URL with the query parameters.
Url(service, gp) == [access_url |-> service.txt[1], q |-> gp]

\* The body a service returns: a VOTable of n catalogue rows around the
\* requested position, or something that is no VOTable.
Body(gp, valid, n) ==
    [valid |-> valid,
     rows  |-> [k \in 1..n |-> [RA |-> gp.RA, DEC |-> gp.DEC, k |-> k]]]

\* utils.astropy_table_from_votable_response (the commented reference at
\* lines 92-118): the parsed table, or an empty one when parsing raises;
\* either carries the raw body and the URL as single-element lists.
astropy_table_from_votable_response(response) ==
    IF response.content.valid
      THEN [kind |-> "table", rows |-> response.content.rows,
            url |-> <<response.url>>, xml_raw |-> <<response.content>>]
      ELSE [kind |-> "table", rows |-> <<>>,
            url |-> <<response.url>>, xml_raw |-> <<response.content>>]

RECURSIVE vstack(_)
\* astropy.table.vstack: rows stacked in order, metadata lists merged.
vstack(ts) ==
    IF ts = <<>>
      THEN [kind |-> "table", rows |-> <<>>, url |-> <<>>, xml_raw |-> <<>>]
      ELSE LET rest == vstack(Tail(ts))
           IN  [kind    |-> "table",
                rows    |-> Head(ts).rows \o rest.rows,
                url     |-> Head(ts).url \o rest.url,
                xml_raw |-> Head(ts).xml_raw \o rest.xml_raw]

\* ---------------------------------------------------------------- state
VARIABLES
    service,    \* query()'s service: the argument, a descriptor after line 58
    coords,     \* query()'s coords argument
    radius,     \* query()'s radius argument
    pc,         \* where the call is
    params,     \* the parameter sets handed to the query loop (line 73)
    idx,        \* the query loop's position in params (1-based)
    gp,         \* _one_cone_search's request parameters (line 85)
    attempt,    \* GETs try_query has issued for the current sub-query
    inflight,   \* requests sent and not yet answered
    log,        \* every GET issued during the call, in order
    response,   \* the response try_query returned
    retval,     \* what _one_cone_search returned
    subErr,     \* what the current sub-query raised
    tables,     \* the tables the query loop collected
    result,     \* what query() returned
    error       \* what query() raised

vars == <<service, coords, radius, pc, params, idx, gp, attempt,
          inflight, log, response, retval, subErr, tables, result, error>>

args == <<coords, radius>>

NoGp       == [RA |-> 0, DEC |-> 0, SR |-> 0]
NoResponse == [url |-> [access_url |-> "", q |-> NoGp],
               content |-> [valid |-> FALSE, rows |-> <<>>]]

Init ==
    /\ service \in ServiceInputs
    /\ coords \in CoordsInputs
    /\ radius \in RadiusInputs
    /\ pc = "call"
    /\ params = <<>>
    /\ idx = 0
    /\ gp = NoGp
    /\ attempt = 0
    /\ inflight = {}
    /\ log = <<>>
    /\ response = NoResponse
    /\ retval = NoTable
    /\ subErr = "none"
    /\ tables = <<>>
    /\ result = NoTable
    /\ error = "none"

\* query(), lines 57-74, up to the call of utils.query_loop.
Query ==
    /\ pc = "call"
    /\ service' = NormService(service)
    /\ LET cs == WrapCoords(coords)
           ir == InRadius(radius, Len(cs.items))
       IN  IF ~CoordsIsList(coords)
             THEN /\ error' = "AssertionError_coords_type"
                  /\ pc' = "raised"
                  /\ UNCHANGED <<params, idx>>
           ELSE IF ir.err # "none"
             THEN /\ error' = ir.err
                  /\ pc' = "raised"
                  /\ UNCHANGED <<params, idx>>
             ELSE /\ params' = Params(cs.items, ir.val)
                  /\ idx' = 1
                  /\ pc' = "loop"
                  /\ UNCHANGED error
    /\ UNCHANGED <<args, gp, attempt, inflight, log, response, retval,
                   subErr, tables, result>>

\* OneConeSearchBegin with the shape check after the request: a position of
\* unknown shape is sent before it is rejected.
OneConeSearchBegin_late ==
    /\ pc = "loop"
    /\ idx <= Len(params)
    /\ LET n == Normalize(params[idx].coords)
       IN  IF n.err # "none"
             THEN /\ subErr' = n.err
                  /\ pc' = "sub_raised"
                  /\ log' = Append(log, [idx |-> idx, attempt |-> 1,
                                         url |-> Url(service, NoGp),
                                         timeout |-> _TIMEOUT])
                  /\ UNCHANGED <<gp, attempt>>
             ELSE /\ gp' = GetParams(n.sky, params[idx].radius)
                  /\ attempt' = 0
                  /\ pc' = "try"
                  /\ UNCHANGED <<subErr, log>>
    /\ retval' = NoTable
    /\ UNCHANGED <<args, service, params, idx, inflight, response, tables,
                   result, error>>

\* utils.query_loop calls _one_cone_search(**params[idx], service=service);
\* lines 78-87 run up to the call of utils.try_query.
OneConeSearchBegin ==
    /\ pc = "loop"
    /\ idx <= Len(params)
    /\ LET n == Normalize(params[idx].coords)
       IN  IF n.err # "none"
             THEN /\ subErr' = n.err
                  /\ pc' = "sub_raised"
                  /\ UNCHANGED <<gp, attempt>>
             ELSE /\ gp' = GetParams(n.sky, params[idx].radius)
                  /\ attempt' = 0
                  /\ pc' = "try"
                  /\ UNCHANGED subErr
    /\ retval' = NoTable
    /\ UNCHANGED <<args, service, params, idx, inflight, log, response, tables,
                   result, error>>

\* utils.try_query: one GET with the timeout, while attempts remain.
TryQueryGet ==
    /\ pc = "try"
    /\ attempt < RetriesArg
    /\ attempt' = attempt + 1
    /\ LET req == [idx |-> idx, attempt |-> attempt + 1,
                   url |-> Url(service, gp), timeout |-> _TIMEOUT]
       IN  /\ inflight' = inflight \cup {req}
           /\ log' = Append(log, req)
    /\ pc' = "wait"
    /\ UNCHANGED <<args, service, params, idx, gp, response, retval, subErr,
                   tables, result, error>>

\* The service answers the request in flight; try_query returns the response.
GetResponds ==
    /\ pc = "wait"
    /\ \E req \in inflight, valid \in BOOLEAN, n \in 0..MaxRows :
          /\ valid \/ n = 0
          /\ inflight' = inflight \ {req}
          /\ response' = [url |-> req.url, content |-> Body(gp, valid, n)]
    /\ pc' = "decode"
    /\ UNCHANGED <<args, service, params, idx, gp, attempt, log, retval, subErr,
                   tables, result, error>>

\* The request in flight fails at transport level (timeout, connection
\* error, error status); try_query tries again or, out of attempts, raises.
GetFails ==
    /\ pc = "wait"
    /\ \E req \in inflight : inflight' = inflight \ {req}
    /\ IF attempt < RetriesArg
         THEN /\ pc' = "try"
              /\ UNCHANGED subErr
         ELSE /\ pc' = "sub_raised"
              /\ subErr' = "TransportError"
    /\ UNCHANGED <<args, service, params, idx, gp, attempt, log, response,
                   retval, tables, result, error>>

\* OneConeSearchReturn without the return: the caller gets None.
OneConeSearchReturn_none ==
    /\ pc = "decode"
    /\ retval' = NoTable
    /\ pc' = "returned"
    /\ UNCHANGED <<args, service, params, idx, gp, attempt, inflight, log,
                   response, subErr, tables, result, error>>

\* line 89: _one_cone_search returns the decoded table.
OneConeSearchReturn ==
    /\ pc = "decode"
    /\ retval' = astropy_table_from_votable_response(response)
    /\ pc' = "returned"
    /\ UNCHANGED <<args, service, params, idx, gp, attempt, inflight, log,
                   response, subErr, tables, result, error>>

\* utils.query_loop keeps the sub-query's table and goes on.
LoopCollect ==
    /\ pc = "returned"
    /\ tables' = Append(tables, retval)
    /\ idx' = idx + 1
    /\ pc' = "loop"
    /\ UNCHANGED <<args, service, params, gp, attempt, inflight, log, response,
                   retval, subErr, result, error>>

\* utils.query_loop lets a sub-query's error through to query()'s caller.
LoopAbort ==
    /\ pc = "sub_raised"
    /\ error' = subErr
    /\ pc' = "raised"
    /\ UNCHANGED <<args, service, params, idx, gp, attempt, inflight, log,
                   response, retval, subErr, tables, result>>

\* utils.query_loop drops the failed sub-query and goes on.
LoopSkip ==
    /\ pc = "sub_raised"
    /\ idx' = idx + 1
    /\ subErr' = "none"
    /\ pc' = "loop"
    /\ UNCHANGED <<args, service, params, gp, attempt, inflight, log, response,
                   retval, tables, result, error>>

\* utils.query_loop stacks what it collected; query() returns it (line 74).
LoopFinish ==
    /\ pc = "loop"
    /\ idx > Len(params)
    /\ result' = vstack(tables)
    /\ pc' = "done"
    /\ UNCHANGED <<args, service, params, idx, gp, attempt, inflight, log,
                   response, retval, subErr, tables, error>>

Next ==
    \/ Query
    \/ OneConeSearchBegin
    \/ TryQueryGet
    \/ GetResponds
    \/ GetFails
    \/ OneConeSearchReturn
    \/ LoopCollect
    \/ LoopAbort
    \/ LoopSkip
    \/ LoopFinish

Spec == Init /\ [][Next]_vars

\* ----------------------------------------------------------- properties
\* The positions the caller asked for, whatever way coords was given.
Asked == IF coords.ty = "list" THEN coords.items ELSE <<coords>>

\* coords is of a shape query() documents: a string, a SkyCoord or a list.
Recognized == coords.ty \in {"str", "sky", "list"}

\* GETs issued so far for position i.
Gets(i) == Cardinality({k \in 1..Len(log) : log[k].idx = i})

\* query() has run up to the hand-over to the query loop, or raised before it.
Handed == pc # "call"

\* Rows the query loop collected before position i.
RECURSIVE RowsBefore(_)
RowsBefore(i) ==
    IF i <= 1 THEN 0 ELSE RowsBefore(i - 1) + Len(tables[i - 1].rows)

\* C1: coords a list of N positions and radius a list of exactly N values:
\* query() does not fail and hands N parameter sets to the query loop, the
\* i-th pairing coords[i] with radius[i].
C1_ListRadiusPaired ==
    (/\ Handed
     /\ coords.ty = "list"
     /\ radius.ty = "list"
     /\ Len(radius.items) = Len(coords.items))
    => /\ error \notin {"UnboundLocalError", "AssertionError_radius",
                        "AssertionError_coords_type"}
       /\ Len(params) = Len(coords.items)
       /\ \A i \in 1..Len(params) :
             /\ params[i].coords = coords.items[i]
             /\ params[i].radius = radius.items[i].ra

\* C2: coords of length N and a radius list of another length M: query()
\* fails with the length-mismatch assertion, before any HTTP request.
C2_MismatchAsserts ==
    (/\ Handed
     /\ Recognized
     /\ radius.ty = "list"
     /\ Len(radius.items) # Len(Asked))
    => /\ error = "AssertionError_radius"
       /\ log = <<>>

\* C3: a single non-list radius is broadcast: a list of N positions gives N
\* parameter sets in the order of coords, each with that radius; a single
\* string or SkyCoord gives exactly one parameter set.
C3_ScalarRadiusBroadcast ==
    (Handed /\ Recognized /\ radius.ty # "list")
    => /\ Len(params) = Len(Asked)
       /\ \A i \in 1..Len(Asked) :
             /\ params[i].coords = Asked[i]
             /\ params[i].radius = radius.ra
       /\ error \notin {"UnboundLocalError", "AssertionError_radius",
                        "AssertionError_coords_type"}

C3_Witness ==
    /\ pc = "loop"
    /\ coords.ty = "list"
    /\ Len(coords.items) = 2
    /\ radius.ty = "num"
    /\ Len(params) = 2
    /\ params[1].radius = params[2].radius

\* C4: a single (RA, Dec) 2-tuple or 2-element list is one sky position: one
\* parameter set holding the pair, sent as requests with its RA and DEC only.
C4_PairIsOnePosition ==
    (/\ Handed
     /\ coords.ty \in {"tuple", "list"}
     /\ Len(coords.items) = 2
     /\ \A i \in 1..2 : coords.items[i].ty = "num")
    => /\ Len(params) = 1
       /\ params[1].coords = coords
       /\ error # "AssertionError_coords_type"
       /\ \A k \in 1..Len(log) :
             /\ log[k].url.q.RA = coords.items[1].ra
             /\ log[k].url.q.DEC = coords.items[2].ra

\* C5 as claimed: whenever query() fails with a usage error for a malformed
\* coords shape (coords itself, or an element at any index), no HTTP request
\* was issued during the call.
C5_NoRequestBeforeShapeError ==
    error \in {"AssertionError_coords_type", "AssertionError_coords"}
    => log = <<>>

\* C5 amended: an unrecognized coords fails before any HTTP request; a
\* malformed element fails when its own sub-query starts, with no request
\* issued for it or for a later position, only for the positions before it.
C5_ShapeErrorBeforeOwnRequest ==
    /\ error = "AssertionError_coords_type" => log = <<>>
    /\ (subErr = "AssertionError_coords" \/ error = "AssertionError_coords")
       => \A k \in 1..Len(log) : log[k].idx < idx

C5_Witness ==
    /\ error = "AssertionError_coords"
    /\ idx = 2
    /\ Len(log) >= 1
    /\ \A k \in 1..Len(log) : log[k].idx = 1

\* C6: transport failure on every attempt: the single cone search raises and
\* returns no table, after exactly _RETRIES GETs for the position; no
\* position ever gets more.
C6_ExhaustionRaises ==
    /\ \A i \in 1..Len(params) : Gets(i) <= _RETRIES
    /\ pc = "try" => Gets(idx) < _RETRIES
    /\ subErr = "TransportError"
       => /\ pc \in {"sub_raised", "raised"}
          /\ Gets(idx) = _RETRIES
          /\ retval = NoTable
          /\ Len(tables) < idx

C6_Witness ==
    /\ pc = "sub_raised"
    /\ subErr = "TransportError"
    /\ Gets(idx) = _RETRIES
    /\ inflight = {}

\* C7: failures on every attempt before the last allowed one never raise, and
\* success on attempt number _RETRIES returns the decoded table with no
\* error.
C7_LastAttemptSucceeds ==
    /\ subErr = "TransportError" => Gets(idx) >= _RETRIES
    /\ (pc = "wait" /\ Gets(idx) < _RETRIES) => subErr = "none"
    /\ (pc = "returned" /\ Gets(idx) = _RETRIES)
       => /\ retval.kind = "table"
          /\ response.content.valid => retval.rows = response.content.rows
          /\ retval.url = <<Url(service, gp)>>
          /\ subErr = "none"
          /\ error = "none"

C7_Witness ==
    /\ pc = "returned"
    /\ Gets(idx) = _RETRIES
    /\ retval.kind = "table"
    /\ Len(retval.rows) = MaxRows

\* C8: a response whose body is no VOTable gives a table of zero rows with
\* url and xml_raw as single-element lists holding the response's URL and
\* raw body; nothing is raised and the result is not None.
C8_DecodeFailureIsEmptyTable ==
    (pc = "returned" /\ ~response.content.valid)
    => /\ retval.kind = "table"
       /\ retval.rows = <<>>
       /\ retval.url = <<response.url>>
       /\ retval.xml_raw = <<response.content>>
       /\ subErr = "none"
       /\ error = "none"

C8_Witness ==
    /\ pc = "returned"
    /\ ~response.content.valid
    /\ retval.kind = "table"
    /\ retval.url = <<Url(service, gp)>>

\* C9: when every sub-query returned a table, the result holds their rows in
\* the order of the input coordinates, and url and xml_raw hold one entry
\* per position, the i-th from the i-th position's sub-query.
C9_StackedInInputOrder ==
    (pc = "done" /\ Len(tables) = Len(Asked))
    => /\ Len(result.url) = Len(Asked)
       /\ Len(result.xml_raw) = Len(Asked)
       /\ Len(result.rows) = RowsBefore(Len(Asked) + 1)
       /\ \A i \in 1..Len(Asked) :
             LET sky == Normalize(Asked[i]).sky
             IN  /\ result.url[i] = tables[i].url[1]
                 /\ result.xml_raw[i] = tables[i].xml_raw[1]
                 /\ result.url[i].q.RA = sky.ra
                 /\ result.url[i].q.DEC = sky.dec
                 /\ \A k \in 1..Len(tables[i].rows) :
                       /\ result.rows[RowsBefore(i) + k] = tables[i].rows[k]
                       /\ tables[i].rows[k].RA = sky.ra
                       /\ tables[i].rows[k].DEC = sky.dec

C9_Witness ==
    /\ pc = "done"
    /\ Len(Asked) = 2
    /\ Len(tables) = 2
    /\ tables[1].rows = <<>>
    /\ Len(result.rows) >= 1
    /\ result.url[1] # result.url[2]

\* C10: requests go out one at a time, in input order: at most one is in
\* flight, it belongs to the position the loop is at, and every request was
\* for a position not after the current one and not before the previous
\* request's, with that position's RA and DEC.
C10_SequentialInOrder ==
    /\ Cardinality(inflight) <= 1
    /\ \A req \in inflight : pc = "wait" /\ req.idx = idx
    /\ \A k \in 1..Len(log) :
          /\ log[k].idx \in 1..idx
          /\ k > 1 => log[k - 1].idx <= log[k].idx
    /\ log # <<>> =>
          \A i \in 1..Len(Asked) :
             LET sky == Normalize(Asked[i]).sky
             IN  \A k \in 1..Len(log) :
                    log[k].idx = i => /\ log[k].url.q.RA = sky.ra
                                      /\ log[k].url.q.DEC = sky.dec

C10_Witness ==
    /\ pc = "wait"
    /\ idx = 2
    /\ Cardinality(inflight) = 1
    /\ Gets(1) >= 2
    /\ log[1].url # log[Len(log)].url

====
